---- MODULE Spec2Model ----
(***************************************************************************)
(* HomeFinder: the insert-validation schemas and the filter schema of      *)
(* shared/schema.ts (zod schemas derived from the drizzle tables), and the *)
(* appointment-modal state of the landing page client/src/pages/Home.tsx.  *)
(*                                                                         *)
(* JavaScript values are records of one shape, so that any two of them can *)
(* be compared:  k  is the kind (typeof, with null, date and array told    *)
(* apart), nan marks NaN (kind number) and Invalid Date (kind date), a     *)
(* number is n * 10^-e with e = 0 or n not a multiple of 10, a date is the *)
(* UTC day n = yyyymmdd, a string is the sequence s of its characters, an  *)
(* array of numbers is a.  An absent key and the value undefined are one.  *)
(***************************************************************************)
EXTENDS Integers, Sequences, FiniteSets

\* ------------------------------------------------------------ bounds
MaxStrLen == 3
MaxNum == 12
MaxFrac == 1
MaxProps == 2
MaxListLen == 2

\* ------------------------------------------------------------ values
Val(k, nan, n, e, s, a) == [k |-> k, nan |-> nan, n |-> n, e |-> e, s |-> s, a |-> a]
Undef == Val("undefined", FALSE, 0, 0, <<>>, <<>>)
Null == Val("null", FALSE, 0, 0, <<>>, <<>>)
Bool(b) == Val("boolean", FALSE, IF b THEN 1 ELSE 0, 0, <<>>, <<>>)
Num(n, e) == Val("number", FALSE, n, e, <<>>, <<>>)
NaN == Val("number", TRUE, 0, 0, <<>>, <<>>)
Str(s) == Val("string", FALSE, 0, 0, s, <<>>)
DateVal(n) == Val("date", FALSE, n, 0, <<>>, <<>>)
InvalidDate == Val("date", TRUE, 0, 0, <<>>, <<>>)
Arr(a) == Val("array", FALSE, 0, 0, <<>>, a)

Digits == {"0", "1", "2", "3", "4", "5", "6", "7", "8", "9"}
DigitVal(c) ==
    CASE c = "0" -> 0 [] c = "1" -> 1 [] c = "2" -> 2 [] c = "3" -> 3
      [] c = "4" -> 4 [] c = "5" -> 5 [] c = "6" -> 6 [] c = "7" -> 7
      [] c = "8" -> 8 [] c = "9" -> 9
DigitChar(d) ==
    CASE d = 0 -> "0" [] d = 1 -> "1" [] d = 2 -> "2" [] d = 3 -> "3"
      [] d = 4 -> "4" [] d = 5 -> "5" [] d = 6 -> "6" [] d = 7 -> "7"
      [] d = 8 -> "8" [] d = 9 -> "9"

IsDigits(s) == \A i \in 1..Len(s) : s[i] \in Digits

RECURSIVE DigitsVal(_)
DigitsVal(s) ==
    IF s = <<>> THEN 0
    ELSE 10 * DigitsVal(SubSeq(s, 1, Len(s) - 1)) + DigitVal(s[Len(s)])

RECURSIVE NatDigits(_)
NatDigits(n) ==
    IF n < 10 THEN <<DigitChar(n)>>
    ELSE Append(NatDigits(n \div 10), DigitChar(n % 10))

RECURSIVE Zeros(_)
Zeros(k) == IF k <= 0 THEN <<>> ELSE <<"0">> \o Zeros(k - 1)

\* The number n * 10^-e in lowest terms of e.
RECURSIVE Normal(_, _)
Normal(n, e) ==
    IF e > 0 /\ n % 10 = 0 THEN Normal(n \div 10, e - 1) ELSE Num(n, e)

\* ------------------------------------------------- Number(), String()
WhiteSpace == {" "}

RECURSIVE TrimLeft(_)
TrimLeft(s) ==
    IF s # <<>> /\ s[1] \in WhiteSpace THEN TrimLeft(Tail(s)) ELSE s

RECURSIVE TrimRight(_)
TrimRight(s) ==
    IF s # <<>> /\ s[Len(s)] \in WhiteSpace
    THEN TrimRight(SubSeq(s, 1, Len(s) - 1)) ELSE s

\* An unsigned decimal literal: digits, digits. , digits.digits or .digits
UnsignedDecimal(s) ==
    LET dots == {i \in 1..Len(s) : s[i] = "."}
    IN  IF dots = {}
        THEN IF s # <<>> /\ IsDigits(s) THEN Num(DigitsVal(s), 0) ELSE NaN
        ELSE LET d == CHOOSE i \in dots : TRUE
                 ip == SubSeq(s, 1, d - 1)
                 fp == SubSeq(s, d + 1, Len(s))
             IN  IF IsDigits(ip) /\ IsDigits(fp) /\ Len(ip) + Len(fp) >= 1
                 THEN Normal(DigitsVal(ip \o fp), Len(fp))
                 ELSE NaN

\* Number(val) of a string: the white space is trimmed, the empty string is 0,
\* a signed decimal literal is its value and anything else is NaN.
Number(s) ==
    LET t == TrimRight(TrimLeft(s))
    IN  IF t = <<>> THEN Num(0, 0)
        ELSE IF t[1] \in {"-", "+"}
        THEN LET u == UnsignedDecimal(Tail(t))
             IN  IF u.nan THEN NaN
                 ELSE IF t[1] = "-" THEN Num(0 - u.n, u.e) ELSE u
        ELSE UnsignedDecimal(t)

\* String(val) of a number.
String(v) ==
    IF v.nan THEN <<"N", "a", "N">>
    ELSE LET m == IF v.n < 0 THEN 0 - v.n ELSE v.n
             ds == NatDigits(m)
             pad == Zeros(v.e + 1 - Len(ds)) \o ds
             ip == SubSeq(pad, 1, Len(pad) - v.e)
             fp == SubSeq(pad, Len(pad) - v.e + 1, Len(pad))
             sign == IF v.n < 0 THEN <<"-">> ELSE <<>>
         IN  IF v.e = 0 THEN sign \o ip ELSE sign \o ip \o <<".">> \o fp


\* --------------------------------------------------------- new Date()
\* new Date(val) of a string in the ISO date-only forms YYYY, YYYY-MM and
\* YYYY-MM-DD (UTC midnight of that day; an absent month or day is 01), and
\* Invalid Date for a month or day out of range and for a string without any
\* digit.  Other strings are left to the engine's own heuristics by the
\* language; DateStrs below holds none of them.
DateOf(y, m, d) ==
    IF m \in 1..12 /\ d \in 1..31 THEN DateVal(y * 10000 + m * 100 + d)
    ELSE InvalidDate

DateParse(s) ==
    IF Len(s) = 4 /\ IsDigits(s) THEN DateOf(DigitsVal(s), 1, 1)
    ELSE IF Len(s) = 7 /\ IsDigits(SubSeq(s, 1, 4)) /\ s[5] = "-"
            /\ IsDigits(SubSeq(s, 6, 7))
    THEN DateOf(DigitsVal(SubSeq(s, 1, 4)), DigitsVal(SubSeq(s, 6, 7)), 1)
    ELSE IF Len(s) = 10 /\ IsDigits(SubSeq(s, 1, 4)) /\ s[5] = "-"
            /\ IsDigits(SubSeq(s, 6, 7)) /\ s[8] = "-"
            /\ IsDigits(SubSeq(s, 9, 10))
    THEN DateOf(DigitsVal(SubSeq(s, 1, 4)), DigitsVal(SubSeq(s, 6, 7)),
                DigitsVal(SubSeq(s, 9, 10)))
    ELSE InvalidDate

\* ---------------------------------------------------------------- zod
\* The outcome of parsing one value: the parsed value, or the issue's code.
Ok(v) == [ok |-> TRUE, v |-> v, code |-> "none"]
Fail(code) == [ok |-> FALSE, v |-> Undef, code |-> code]

ZString(v) == IF v.k = "string" THEN Ok(v) ELSE Fail("invalid_type")
ZNumber(v) == IF v.k = "number" /\ ~v.nan THEN Ok(v) ELSE Fail("invalid_type")
ZBoolean(v) == IF v.k = "boolean" THEN Ok(v) ELSE Fail("invalid_type")
ZDate(v) ==
    IF v.k # "date" THEN Fail("invalid_type")
    ELSE IF v.nan THEN Fail("invalid_date") ELSE Ok(v)
ZArrayOfNumber(v) == IF v.k = "array" THEN Ok(v) ELSE Fail("invalid_type")

\* schema.optional(), schema.nullable(): r is schema's outcome on v.
Optional(v, r) == IF v = Undef THEN Ok(Undef) ELSE r
Nullable(v, r) == IF v = Null THEN Ok(Null) ELSE r
\* z.union([a, b]): the first option that accepts the value.
Union(ra, rb) == IF ra.ok THEN ra ELSE IF rb.ok THEN rb ELSE Fail("invalid_union")

\* ------------------------------------------------------------- tables
Col(type, notNull, hasDefault) ==
    [type |-> type, notNull |-> notNull, hasDefault |-> hasDefault]

usersTable ==
    [id |-> Col("number", TRUE, TRUE),
     username |-> Col("string", TRUE, FALSE),
     password |-> Col("string", TRUE, FALSE),
     email |-> Col("string", TRUE, FALSE),
     fullName |-> Col("string", TRUE, FALSE),
     savedProperties |-> Col("array", TRUE, TRUE),
     createdAt |-> Col("date", FALSE, TRUE)]

propertiesTable ==
    [id |-> Col("number", TRUE, TRUE),
     title |-> Col("string", TRUE, FALSE),
     description |-> Col("string", TRUE, FALSE),
     price |-> Col("string", TRUE, FALSE),
     address |-> Col("string", TRUE, FALSE),
     city |-> Col("string", TRUE, FALSE),
     state |-> Col("string", TRUE, FALSE),
     zipCode |-> Col("string", TRUE, FALSE),
     lat |-> Col("string", TRUE, FALSE),
     lng |-> Col("string", TRUE, FALSE),
     bedrooms |-> Col("number", TRUE, FALSE),
     bathrooms |-> Col("number", TRUE, FALSE),
     squareFeet |-> Col("number", TRUE, FALSE),
     yearBuilt |-> Col("number", FALSE, FALSE),
     propertyType |-> Col("string", TRUE, FALSE),
     listingType |-> Col("string", TRUE, FALSE),
     imageUrl |-> Col("string", TRUE, FALSE),
     userId |-> Col("number", TRUE, FALSE),
     featured |-> Col("boolean", FALSE, TRUE),
     status |-> Col("string", FALSE, TRUE),
     avgRating |-> Col("string", FALSE, TRUE),
     ratingCount |-> Col("number", FALSE, TRUE),
     createdAt |-> Col("date", FALSE, TRUE)]

appointmentsTable ==
    [id |-> Col("number", TRUE, TRUE),
     propertyId |-> Col("number", TRUE, FALSE),
     userId |-> Col("number", TRUE, FALSE),
     date |-> Col("date", TRUE, FALSE),
     message |-> Col("string", FALSE, FALSE),
     status |-> Col("string", FALSE, TRUE),
     createdAt |-> Col("date", FALSE, TRUE)]

\* The column defaults the tables declare (applied by the database on insert,
\* to a column the inserted row does not give).
UserDefaults == [savedProperties |-> Arr(<<>>)]
PropertyDefaults ==
    [featured |-> Bool(FALSE), status |-> Str(<<"a", "v", "a", "i", "l", "a", "b", "l", "e">>),
     avgRating |-> Str(<<"0">>), ratingCount |-> Num(0, 0)]

\* ------------------------------------------------- createInsertSchema
\* The zod schema of a column by its data type.
mapColumnToSchema(col, v) ==
    CASE col.type = "string" -> ZString(v)
      [] col.type = "number" -> ZNumber(v)
      [] col.type = "boolean" -> ZBoolean(v)
      [] col.type = "date" -> ZDate(v)
      [] col.type = "array" -> ZArrayOfNumber(v)

\* Mutant: every column optional, as in an update schema.
InsertColumn_AllOptional(col, v, r) == Optional(v, Nullable(v, r))

\* A column that may be null is nullable and optional on insert, one that has
\* a default is optional; r is the column's (possibly overridden) schema on v.
InsertColumn(col, v, r) ==
    IF ~col.notNull THEN Optional(v, Nullable(v, r))
    ELSE IF col.hasDefault THEN Optional(v, r)
    ELSE r

\* Mutant: the number is accepted without the transform.
NumberToString_NoTransform(v) == Union(ZString(v), ZNumber(v))

\* z.union([z.string(), z.number().transform(val => String(val))])
NumberToString(v) ==
    Union(ZString(v),
          IF ZNumber(v).ok THEN Ok(Str(String(v))) ELSE ZNumber(v))

\* z.union([z.number(), z.string().transform(val => Number(val))])
StringToNumber(v) ==
    Union(ZNumber(v),
          IF ZString(v).ok THEN Ok(Number(v.s)) ELSE ZString(v))

\* Mutant: the transform without its test of the empty string.
YearBuilt_NoEmptyCheck(v) ==
    Union(Optional(v, ZNumber(v)),
          Optional(v, IF ZString(v).ok THEN Ok(Number(v.s)) ELSE ZString(v)))

\* z.union([z.number().optional(),
\*          z.string().transform(val => val ? Number(val) : undefined).optional()])
YearBuilt(v) ==
    Union(Optional(v, ZNumber(v)),
          Optional(v, IF ZString(v).ok
                      THEN Ok(IF v.s # <<>> THEN Number(v.s) ELSE Undef)
                      ELSE ZString(v)))

\* z.union([z.date(), z.string().transform(val => new Date(val))])
DateOrString(v) ==
    Union(ZDate(v),
          IF ZString(v).ok THEN Ok(DateParse(v.s)) ELSE ZString(v))

\* The keys .omit() removes from each insert schema.
OmitUser == {}
OmitProperty == {"id", "createdAt"}
OmitAppointment == {"id", "createdAt"}

\* Mutant: the column default given to an absent key.
insertUserField_WithDefault(f, v) ==
    IF v = Undef /\ f \in DOMAIN UserDefaults THEN Ok(UserDefaults[f])
    ELSE InsertColumn(usersTable[f], v, mapColumnToSchema(usersTable[f], v))

insertUserField(f, v) == InsertColumn(usersTable[f], v, mapColumnToSchema(usersTable[f], v))

insertPropertyField(f, v) ==
    InsertColumn(propertiesTable[f], v,
        CASE f \in {"price", "lat", "lng"} -> NumberToString(v)
          [] f \in {"bedrooms", "bathrooms", "squareFeet"} -> StringToNumber(v)
          [] f = "yearBuilt" -> YearBuilt(v)
          [] OTHER -> mapColumnToSchema(propertiesTable[f], v))

insertAppointmentField(f, v) ==
    InsertColumn(appointmentsTable[f], v,
        CASE f = "date" -> DateOrString(v)
          [] OTHER -> mapColumnToSchema(appointmentsTable[f], v))

FilterFields ==
    {"city", "minPrice", "maxPrice", "minBeds", "minBaths", "propertyType",
     "listingType", "minSqft", "maxSqft", "minYear", "maxYear"}

\* Mutant: a coercing string schema, which takes a number too.
propertyFilterField_Coerce(f, v) ==
    IF v.k = "number" THEN Ok(Str(String(v))) ELSE Optional(v, ZString(v))

propertyFilterField(f, v) == Optional(v, ZString(v))

\* ----------------------------------------------------------- z.object
Entities == {"user", "property", "appointment", "filter"}

\* The keys of the object schema.
Shape(e) ==
    CASE e = "user" -> DOMAIN usersTable \ OmitUser
      [] e = "property" -> DOMAIN propertiesTable \ OmitProperty
      [] e = "appointment" -> DOMAIN appointmentsTable \ OmitAppointment
      [] e = "filter" -> FilterFields

Field(e, f, v) ==
    CASE e = "user" -> insertUserField(f, v)
      [] e = "property" -> insertPropertyField(f, v)
      [] e = "appointment" -> insertAppointmentField(f, v)
      [] e = "filter" -> propertyFilterField(f, v)

\* The value a key the schema does not know gets in the output: by default
\* z.object drops it.
Unknown(v) == Undef

\* safeParse of the object schema of e on the object p: every key of the shape
\* is parsed and the issues of all of them are gathered; on success the data
\* holds the parsed keys only.
Validate(e, p) ==
    LET get(f) == IF f \in DOMAIN p THEN p[f] ELSE Undef
        res == [f \in Shape(e) |-> Field(e, f, get(f))]
        issues == {[path |-> f, code |-> res[f].code, received |-> get(f).k] :
                       f \in {g \in Shape(e) : ~res[g].ok}}
    IN  [ok |-> issues = {},
         value |-> IF issues = {}
                   THEN [f \in DOMAIN p |->
                            IF f \in Shape(e) THEN res[f].v ELSE Unknown(p[f])]
                   ELSE [f \in DOMAIN p |-> Undef],
         issues |-> issues]

\* The spec's error taxonomy over zod's issues.
MissingField(i) == i.received = "undefined"
ShapeMismatch(i) == i.received # "undefined"

\* ------------------------------------------------------------- inputs
Alphabet == {"0", "3", ".", "-", "t", " "}
Strs == UNION {[1..n -> Alphabet] : n \in 0..MaxStrLen}

\* The spec's own examples.
Str1998 == <<"1", "9", "9", "8">>
StrThree == <<"t", "h", "r", "e", "e">>
StrPrice == <<"2", "5", "0", "0", "0", "0", ".", "5", "0">>
ExampleStrs == {Str1998, StrThree, StrPrice}

Year == <<"2", "0", "2", "4">>
Months == {<<"0", "5">>, <<"1", "3">>}
Days == {<<"0", "1">>, <<"3", "2">>}
NotADate == <<"n", "o", "t", "-", "a", "-", "d", "a", "t", "e">>
\* Date strings: the ISO date-only forms, and strings without a digit.
DateStrs ==
    {Year} \cup {Year \o <<"-">> \o m : m \in Months}
           \cup {Year \o <<"-">> \o m \o <<"-">> \o d : m \in Months, d \in Days}
           \cup {NotADate, StrThree}
           \cup {s \in Strs : \A i \in 1..Len(s) : s[i] \notin Digits}

Nums == ({Num(n, e) : n \in (0 - MaxNum)..MaxNum, e \in 0..MaxFrac} \cap
         {Normal(n, e) : n \in (0 - MaxNum)..MaxNum, e \in 0..MaxFrac})
        \cup {Num(250000, 0), Num(1998, 0)}
Dates == {DateVal(20240101), DateVal(20240501), InvalidDate}
Others == {Undef, Null, Bool(TRUE), Arr(<<>>), Arr(<<1, 2>>), NaN}

\* The values tried for key f of a payload.
Inputs(f) ==
    Others \cup Nums \cup Dates
           \cup {Str(s) : s \in IF f = "date" THEN DateStrs ELSE Strs \cup ExampleStrs}

Extra == "extra"
Keys(e) ==
    CASE e = "user" -> DOMAIN usersTable \cup {Extra}
      [] e = "property" -> DOMAIN propertiesTable \cup {Extra}
      [] e = "appointment" -> DOMAIN appointmentsTable \cup {Extra}
      [] e = "filter" -> FilterFields \cup {Extra}

T == Str(<<"t">>)
\* A payload that gives every required key a valid value and no other key.
Base(e) ==
    [f \in Keys(e) |->
        CASE e = "user" /\ f \in {"username", "password", "email", "fullName"} -> T
          [] e = "property" /\ f \in {"title", "description", "address", "city",
                 "state", "zipCode", "propertyType", "listingType", "imageUrl"} -> T
          [] e = "property" /\ f \in {"price", "lat", "lng"} -> Str(<<"3", ".", "0">>)
          [] e = "property" /\ f \in {"bedrooms", "bathrooms", "squareFeet", "userId"}
                 -> Num(3, 0)
          [] e = "appointment" /\ f \in {"propertyId", "userId"} -> Num(3, 0)
          [] e = "appointment" /\ f = "date" -> DateVal(20240501)
          [] OTHER -> Undef]

\* ============================================================== state
\* entity, payload, result: a validation call (its schema, its input and its
\* outcome); stage: "input" before the call, "validated" after it, and
\* "revalidated" once the data it returned has been validated again.
\* featuredProperties, properties, isLoadingProperties: the two queries' data.
\* selectedProperty, appointmentModalOpen: the landing page's useState cells.
\* call: the last handler of the page that ran, with its argument.
VARIABLES entity, payload, result, stage,
          featuredProperties, properties, isLoadingProperties,
          selectedProperty, appointmentModalOpen, call
vvars == <<entity, payload, result, stage>>
hvars == <<featuredProperties, properties, isLoadingProperties,
           selectedProperty, appointmentModalOpen, call>>
vars == <<vvars, hvars>>

NoProperty == [id |-> 0]
NoResult == [ok |-> FALSE, value |-> <<>>, issues |-> {}]

\* The landing page as mounted: both queries pending, no modal.
HomeMounted ==
    /\ featuredProperties = <<>>
    /\ properties = <<>>
    /\ isLoadingProperties = TRUE
    /\ selectedProperty = NoProperty
    /\ appointmentModalOpen = FALSE
    /\ call = [op |-> "mount", propertyId |-> 0]

\* Validation is a pure function of the payload: every payload that gives one
\* key of a base payload any input value is a starting state.
Init ==
    /\ \E e \in Entities : \E f \in Keys(e) : \E v \in Inputs(f) :
          /\ entity = e
          /\ payload = [Base(e) EXCEPT ![f] = v]
    /\ result = NoResult
    /\ stage = "input"
    /\ HomeMounted

\* ------------------------------------------------- validation calls
Parsed(e) ==
    /\ result' = Validate(e, payload)
    /\ stage' = "validated"
    /\ UNCHANGED <<entity, payload, hvars>>

insertUserSchema ==
    /\ stage = "input" /\ entity = "user"
    /\ Parsed("user")

insertPropertySchema ==
    /\ stage = "input" /\ entity = "property"
    /\ Parsed("property")

insertAppointmentSchema ==
    /\ stage = "input" /\ entity = "appointment"
    /\ Parsed("appointment")

propertyFilterSchema ==
    /\ stage = "input" /\ entity = "filter"
    /\ Parsed("filter")

\* The data of a successful validation is validated again.
Revalidate ==
    /\ stage = "validated"
    /\ result.ok
    /\ payload' = result.value
    /\ result' = Validate(entity, payload')
    /\ stage' = "revalidated"
    /\ UNCHANGED <<entity, hvars>>

Next ==
    \/ insertUserSchema
    \/ insertPropertySchema
    \/ insertAppointmentSchema
    \/ propertyFilterSchema
    \/ Revalidate

Spec == Init /\ [][Next]_vars

\* ------------------------------------------------------- landing page
GridSize == 6

Property(i) == [id |-> i]
\* What a query can return: a list of properties with distinct ids.
Lists ==
    {l \in UNION {[1..n -> {Property(i) : i \in 1..MaxProps}] : n \in 0..MaxListLen} :
        \A i, j \in 1..Len(l) : i # j => l[i].id # l[j].id}

Min(a, b) == IF a < b THEN a ELSE b

\* list.find(p => p.id === propertyId): the first such entry, or undefined.
Find(list, propertyId) ==
    LET hits == {i \in 1..Len(list) : list[i].id = propertyId}
    IN  IF hits = {} THEN NoProperty
        ELSE list[CHOOSE i \in hits : \A j \in hits : i <= j]

\* Mutant: the lookup in the list the grid is drawn from.
ScheduleList_AllProperties == properties

\* The list handleScheduleViewing looks the property up in.
ScheduleList == featuredProperties

\* The cards of the listing grid: properties.slice(0, 6), once loaded.
Grid ==
    IF isLoadingProperties THEN {}
    ELSE {properties[i].id : i \in 1..Min(Len(properties), GridSize)}

HomeInit ==
    /\ entity = "filter"
    /\ payload = Base("filter")
    /\ result = NoResult
    /\ stage = "input"
    /\ HomeMounted

\* The featured query settles, or is refetched, with new data.
FeaturedQuery ==
    \E l \in Lists :
        /\ featuredProperties' = l
        /\ call' = [op |-> "featuredQuery", propertyId |-> 0]
        /\ UNCHANGED <<properties, isLoadingProperties, selectedProperty,
                       appointmentModalOpen, vvars>>

\* The all-properties query settles, or is refetched, with new data.
PropertiesQuery ==
    \E l \in Lists :
        /\ properties' = l
        /\ isLoadingProperties' = FALSE
        /\ call' = [op |-> "propertiesQuery", propertyId |-> 0]
        /\ UNCHANGED <<featuredProperties, selectedProperty,
                       appointmentModalOpen, vvars>>

\* A card of the grid calls onScheduleViewing with its property's id.
handleScheduleViewing ==
    \E propertyId \in Grid :
        LET property == Find(ScheduleList, propertyId)
        IN  /\ IF property # NoProperty
               THEN /\ selectedProperty' = property
                    /\ appointmentModalOpen' = TRUE
               ELSE UNCHANGED <<selectedProperty, appointmentModalOpen>>
            /\ call' = [op |-> "handleScheduleViewing", propertyId |-> propertyId]
            /\ UNCHANGED <<featuredProperties, properties, isLoadingProperties, vvars>>

\* The appointment form, rendered while a property is selected, closes.
onClose ==
    /\ selectedProperty # NoProperty
    /\ appointmentModalOpen' = FALSE
    /\ selectedProperty' = NoProperty
    /\ call' = [op |-> "onClose", propertyId |-> 0]
    /\ UNCHANGED <<featuredProperties, properties, isLoadingProperties, vvars>>

HomeNext ==
    \/ FeaturedQuery
    \/ PropertiesQuery
    \/ handleScheduleViewing
    \/ onClose

HomeSpec == HomeInit /\ [][HomeNext]_vars

\* ============================================================= claims
Validated(e) == stage = "validated" /\ entity = e
NoIssue(f) == \A i \in result.issues : i.path # f
IssueAt(f) == \E i \in result.issues : i.path = f
ShapeMismatchAt(f) == \E i \in result.issues : i.path = f /\ ShapeMismatch(i)
MissingFieldAt(f) == \E i \in result.issues : i.path = f /\ MissingField(i)

CountFields == {"bedrooms", "bathrooms", "squareFeet"}
DecimalFields == {"price", "lat", "lng"}

\* C1: in property insert validation, a string given for bedrooms, bathrooms
\* or squareFeet that parses to a number validates to that number, and a
\* non-numeric string makes validation fail with a ShapeMismatch on that field.
C1_NonNumericStringFails ==
    Validated("property") =>
        \A f \in CountFields :
            payload[f].k = "string" =>
                IF Number(payload[f].s).nan
                THEN ~result.ok /\ ShapeMismatchAt(f)
                ELSE NoIssue(f) /\ (result.ok => result.value[f] = Number(payload[f].s))

\* C2: in appointment insert validation a date value is accepted as is, a
\* parseable date string validates to the equivalent date, an unparseable string
\* fails with a ShapeMismatch on date, and no successful result carries an
\* invalid date.
C2_InvalidDateStringFails ==
    Validated("appointment") =>
        /\ (payload.date.k = "date" /\ ~payload.date.nan) =>
              (NoIssue("date") /\ (result.ok => result.value.date = payload.date))
        /\ (payload.date.k = "string" /\ ~DateParse(payload.date.s).nan) =>
              /\ NoIssue("date")
              /\ result.ok => result.value.date = DateParse(payload.date.s)
        /\ (payload.date.k = "string" /\ DateParse(payload.date.s).nan) =>
              (~result.ok /\ ShapeMismatchAt("date"))
        /\ result.ok => ~result.value.date.nan

\* The required keys that have no coercion rule.
PlainRequired(e) ==
    CASE e = "user" -> {"username", "password", "email", "fullName"}
      [] e = "property" -> {"title", "description", "address", "city", "state",
                            "zipCode", "propertyType", "listingType", "imageUrl",
                            "userId"}
      [] e = "appointment" -> {"propertyId", "userId"}
      [] e = "filter" -> {}
PlainRequiredText(e) == PlainRequired(e) \ {"userId", "propertyId"}
Empty == Str(<<>>)

\* C3 as stated: insert validation fails, with an issue naming the key,
\* whenever a required key without a coercion rule is absent or is the empty
\* string.
C3_AbsentOrEmptyFails ==
    stage = "validated" =>
        \A f \in PlainRequired(entity) :
            payload[f] \in {Undef, Empty} => (~result.ok /\ IssueAt(f))

\* C3 as amended: insert validation fails, with a MissingField issue naming the
\* key, whenever a required key without a coercion rule is absent, and the key
\* is never defaulted; the empty string is rejected for the numeric keys
\* (userId, propertyId) only, and for a required text key it is accepted and
\* returned as it is.
C3_AbsentFailsEmptyTextPasses ==
    stage = "validated" =>
        \A f \in PlainRequired(entity) :
            /\ payload[f] = Undef =>
                  (~result.ok /\ MissingFieldAt(f) /\ result.value[f] = Undef)
            /\ (payload[f] = Empty /\ f \notin PlainRequiredText(entity)) =>
                  (~result.ok /\ ShapeMismatchAt(f))
            /\ (payload[f] = Empty /\ f \in PlainRequiredText(entity)) =>
                  (result.ok /\ result.value[f] = Empty)

C3_Witness ==
    /\ Validated("property")
    /\ payload.title = Undef
    /\ ~result.ok
    /\ MissingFieldAt("title")

\* C4: every successful result of insert validation of a user, a property or
\* an appointment has neither id nor createdAt, whatever the payload gave.
C4_NoServerAssignedKeys ==
    (stage = "validated" /\ entity # "filter" /\ result.ok) =>
        (result.value.id = Undef /\ result.value.createdAt = Undef)

\* C5 as stated: the validated output of a user payload without savedProperties
\* has savedProperties = [], and that of a property payload without status has
\* status = "available".
C5_DefaultsInOutput ==
    /\ (Validated("user") /\ payload.savedProperties = Undef /\ result.ok) =>
          result.value.savedProperties = UserDefaults.savedProperties
    /\ (Validated("property") /\ payload.status = Undef /\ result.ok) =>
          result.value.status = PropertyDefaults.status

\* C5 as amended: a user payload without savedProperties and a property payload
\* without status validate (the key is optional), and the key is still absent
\* in the validated output: validation applies no column default.
C5_DefaultsNotApplied ==
    /\ Validated("user") =>
          /\ payload = Base("user") => result.ok
          /\ payload.savedProperties = Undef =>
                (NoIssue("savedProperties")
                 /\ (result.ok => result.value.savedProperties = Undef))
    /\ Validated("property") =>
          /\ payload = Base("property") => result.ok
          /\ payload.status = Undef =>
                (NoIssue("status") /\ (result.ok => result.value.status = Undef))

C5_Witness ==
    /\ Validated("user")
    /\ payload = Base("user")
    /\ result.ok
    /\ result.value.savedProperties = Undef

DecimalChars == Digits \cup {"-", "."}

\* C6: in property insert validation a number given for price, lat or lng is
\* converted to its decimal string (250000 gives "250000": a string of digits,
\* sign and point that reads back as the same number), a string is returned as
\* the same string, and the validated value is always a string.
C6_DecimalFieldsAreStrings ==
    Validated("property") =>
        \A f \in DecimalFields :
            /\ (payload[f].k = "number" /\ ~payload[f].nan) =>
                  /\ NoIssue(f)
                  /\ result.ok =>
                        /\ result.value[f].k = "string"
                        /\ \A i \in 1..Len(result.value[f].s) :
                              result.value[f].s[i] \in DecimalChars
                        /\ Number(result.value[f].s) = payload[f]
                        /\ payload[f] = Num(250000, 0) =>
                              result.value[f].s = <<"2", "5", "0", "0", "0", "0">>
                        /\ payload[f] = Num(0 - 5, 1) =>
                              result.value[f].s = <<"-", "0", ".", "5">>
            /\ payload[f].k = "string" =>
                  (NoIssue(f) /\ (result.ok => result.value[f] = payload[f]))
            /\ result.ok => result.value[f].k = "string"

C6_Witness ==
    /\ Validated("property")
    /\ payload.price = Num(250000, 0)
    /\ result.ok
    /\ result.value.price = Str(<<"2", "5", "0", "0", "0", "0">>)

\* A value in canonical form: every column of the schema holds a value of its
\* primitive kind (NaN and Invalid Date are values of none), a column that may
\* be null may hold null, only a column that is optional on insert may be
\* absent, and there is no other key.
ColumnOf(e, f) ==
    CASE e = "user" -> usersTable[f]
      [] e = "property" -> propertiesTable[f]
      [] e = "appointment" -> appointmentsTable[f]
Canonical(e, p) ==
    /\ e # "filter"
    /\ \A f \in DOMAIN p :
          IF f \in Shape(e)
          THEN \/ p[f].k = ColumnOf(e, f).type /\ ~p[f].nan
               \/ p[f] = Null /\ ~ColumnOf(e, f).notNull
               \/ p[f] = Undef /\ (~ColumnOf(e, f).notNull \/ ColumnOf(e, f).hasDefault)
          ELSE p[f] = Undef

\* C7: validating a canonical value succeeds and returns it unchanged, and
\* validating the output of a successful validation returns the same value.
C7_Idempotent ==
    /\ (stage = "validated" /\ Canonical(entity, payload))
          => (result.ok /\ result.value = payload)
    /\ stage = "revalidated" => (result.ok /\ result.value = payload)

\* C8: in property insert validation yearBuilt omitted or "" validates to an
\* absent value, a number to that number and a numeric string to the parsed
\* number ("1998" to 1998), and none of these makes validation fail.
C8_YearBuilt ==
    Validated("property") =>
        LET y == payload.yearBuilt
            expect(v) == NoIssue("yearBuilt") /\ (result.ok => result.value.yearBuilt = v)
        IN  /\ y \in {Undef, Empty} => expect(Undef)
            /\ (y.k = "number" /\ ~y.nan) => expect(y)
            /\ (y.k = "string" /\ y # Empty /\ ~Number(y.s).nan) => expect(Number(y.s))
            /\ y = Str(Str1998) => (result.ok /\ result.value.yearBuilt = Num(1998, 0))
            /\ payload = Base("property") => result.ok

C8_Witness ==
    /\ Validated("property")
    /\ payload.yearBuilt = Empty
    /\ result.ok
    /\ result.value.yearBuilt = Undef

\* C9: each of the eleven filter keys is an optional string: the empty object
\* and an object with only city validate, an absent key stays absent, a string
\* is kept, and any other value of a filter key makes validation fail.
C9_FilterOptionalStrings ==
    Validated("filter") =>
        /\ Cardinality(Shape("filter")) = 11
        /\ payload = Base("filter") => result.ok
        /\ (payload.city.k = "string" /\ payload.extra = Undef) => result.ok
        /\ \A f \in Shape("filter") :
              /\ payload[f] = Undef =>
                    (NoIssue(f) /\ (result.ok => result.value[f] = Undef))
              /\ payload[f].k = "string" =>
                    (NoIssue(f) /\ (result.ok => result.value[f] = payload[f]))
              /\ payload[f].k \notin {"undefined", "string"} =>
                    (~result.ok /\ ShapeMismatchAt(f))

C9_Witness ==
    /\ Validated("filter")
    /\ payload.minPrice = Num(3, 0)
    /\ ~result.ok
    /\ ShapeMismatchAt("minPrice")

\* What one step of the landing page may do to the modal's state.
ModalStep ==
    /\ call'.op = "handleScheduleViewing" =>
          IF \E i \in 1..Len(featuredProperties) :
                 featuredProperties[i].id = call'.propertyId
          THEN /\ \E i \in 1..Len(featuredProperties) :
                     selectedProperty' = featuredProperties[i]
               /\ selectedProperty'.id = call'.propertyId
               /\ appointmentModalOpen' = TRUE
          ELSE UNCHANGED <<selectedProperty, appointmentModalOpen>>
    /\ call'.op = "onClose" =>
          (appointmentModalOpen' = FALSE /\ selectedProperty' = NoProperty)
    /\ call'.op \in {"featuredQuery", "propertiesQuery"} =>
          UNCHANGED <<selectedProperty, appointmentModalOpen>>

\* C10: on the landing page appointmentModalOpen is true only while
\* selectedProperty is non-null; handleScheduleViewing(propertyId) selects the
\* entry of featuredProperties with that id and opens the modal, and changes
\* nothing when featuredProperties has no such entry, also for a card of the
\* grid; onClose resets both; a change of a fetched list changes neither.
C10_ModalState ==
    /\ [](appointmentModalOpen => selectedProperty # NoProperty)
    /\ [][ModalStep]_vars

\* A card of the grid whose property is not featured was clicked: no modal.
C10_Witness ==
    /\ call.op = "handleScheduleViewing"
    /\ call.propertyId \in Grid
    /\ Find(featuredProperties, call.propertyId) = NoProperty
    /\ featuredProperties # <<>>
    /\ selectedProperty = NoProperty
    /\ ~appointmentModalOpen
====
